---- MODULE Spec2Model ----
(***************************************************************************)
(* Model of crates/cacache/src/put.rs: the single-entry writers (Writer,   *)
(* SyncWriter, WriteOpts and the write/write_sync/write_hash/              *)
(* write_hash_sync convenience functions) and the packfile builder         *)
(* write_entries with its digesting stream adapter SSRIStream.             *)
(***************************************************************************)
EXTENDS Integers, Sequences, FiniteSets, TLC

(* ---------------------------------------------------------------------- *)
(* Bounds                                                                 *)
(* ---------------------------------------------------------------------- *)
MaxDataLen == 1
MaxEntries == 2

(* ---------------------------------------------------------------------- *)
(* Option<T>: None is the empty tuple, Some(x) the one-element tuple      *)
(* ---------------------------------------------------------------------- *)
None == <<>>
Some(x) == <<x>>
IsSome(o) == o # <<>>
Unwrap(o) == o[1]

(* ---------------------------------------------------------------------- *)
(* Bytes and blobs                                                        *)
(* ---------------------------------------------------------------------- *)
ByteVals == {0, 254}
Blobs == UNION {[1..n -> ByteVals] : n \in 0..MaxDataLen}
WriteBufs == UNION {[1..n -> ByteVals] : n \in 1..(MaxDataLen + 1)}
Keys == {"k1"}

(* ---------------------------------------------------------------------- *)
(* ssri: digests and Integrity values.  The digest is a two-byte stand-in *)
(* for the 32-byte SHA-256 (and for SHA-512), computed from the bytes fed *)
(* to the builder, in order.                                              *)
(* ---------------------------------------------------------------------- *)
Salt(algo) == IF algo = "sha256" THEN 0 ELSE 7

\* IntegrityOpts::new().algorithm(algo): an empty digest builder
BuilderNew(algo) == [algorithm |-> algo, h1 |-> 0, h2 |-> 0, n |-> 0]

\* the builder after absorbing one byte
BuilderAbsorb(b, byte) ==
  [b EXCEPT !.h1 = (2 * @ + byte + 1) % 256,
            !.h2 = (@ + (b.n + 1) * (byte + 1)) % 256,
            !.n = @ + 1]

\* IntegrityOpts::input: the bytes are absorbed one by one, in order (the
\* first half of the bytes, then the second half; the count of the first
\* half is looked at so that it is evaluated before the second is begun,
\* and it always is b.n + half)
RECURSIVE BuilderInput(_, _)
BuilderInput(b, bytes) ==
  IF bytes = <<>> THEN b
  ELSE IF Len(bytes) = 1 THEN BuilderAbsorb(b, bytes[1])
  ELSE LET half == Len(bytes) \div 2
           first == BuilderInput(b, SubSeq(bytes, 1, half))
       IN IF first.n = b.n + half
          THEN BuilderInput(first, SubSeq(bytes, half + 1, Len(bytes)))
          ELSE b

\* IntegrityOpts::result: an Integrity with the one hash of the builder
BuilderResult(b) ==
  <<[algorithm |-> b.algorithm,
     digest |-> <<(b.h1 + Salt(b.algorithm)) % 256, b.h2>>]>>

\* the Integrity of a whole byte sequence
IntegrityResult(algo, data) == BuilderResult(BuilderInput(BuilderNew(algo), data))

Digest(algo, data) == IntegrityResult(algo, data)[1].digest

\* Integrity::pick_algorithm: the hashes are kept strongest first
PickAlgorithm(sri) == sri[1].algorithm

\* Integrity::matches: Some(algorithm) when a hash of self under the
\* algorithm picked from other equals a hash of other, else None
Matches(self, other) ==
  LET algo == PickAlgorithm(other) IN
  IF \E i \in 1..Len(self), j \in 1..Len(other) :
        /\ self[i].algorithm = algo
        /\ other[j].algorithm = algo
        /\ self[i] = other[j]
  THEN Some(algo) ELSE None

\* hex digits of a byte string, two per byte, high nibble first
RECURSIVE HexEncode(_)
HexEncode(bytes) ==
  IF bytes = <<>> THEN <<>>
  ELSE <<Head(bytes) \div 16, Head(bytes) % 16>> \o HexEncode(Tail(bytes))

\* hex::decode
RECURSIVE HexDecode(_)
HexDecode(hexed) ==
  IF Len(hexed) < 2 THEN <<>>
  ELSE <<16 * hexed[1] + hexed[2]>> \o HexDecode(Tail(Tail(hexed)))

\* Integrity::to_hex: (algorithm, hex of the digest) of the first hash
ToHex(sri) == <<sri[1].algorithm, HexEncode(sri[1].digest)>>

(* ---------------------------------------------------------------------- *)
(* State                                                                  *)
(* ---------------------------------------------------------------------- *)
VARIABLES
  writers,   \* writer handle -> Writer / SyncWriter record
  index,     \* the key index: key -> Option<entry>
  store,     \* the content store: set of <<sri, bytes>> blobs persisted
  pc,            \* write_entries: position of the build task
  consumed,      \* write_entries: items taken from entry_stream
  dest,          \* write_entries: SSRIStream over the pack buffer
  offset,        \* write_entries: the running offset
  offsets,       \* write_entries: BTreeMap digest -> offset, in key order
  entry_hash,    \* write_entries: HashMap path -> (sri, size, mode)
  packed,        \* history: the entries appended to the pack, in order
  index_object,  \* write_entries: the serialized metadata index
  packfile_sri,  \* write_entries: the SRI taken from dest
  output_packidx,\* write_entries: the .idx buffer
  fs,            \* the packed directory and its .idx and .pack files
  result,        \* what write_entries returned
  adapter,       \* an SSRIStream over an inner stream, and its last result
  handle,        \* one Writer / SyncWriter with the history of its calls
  tab            \* an offset table and the outcome of the fanout construction on it

wvars == <<writers, index, store>>
pvars == <<pc, consumed, dest, offset, offsets, entry_hash, packed, index_object,
           packfile_sri, output_packidx, fs, result>>
vars == <<writers, index, store, pc, consumed, dest, offset, offsets, entry_hash,
          packed, index_object, packfile_sri, output_packidx, fs, result, adapter,
          handle, tab>>

WriterIds == {"w1", "w2"}

\* WriteOpts values a caller may build
SizeChoices == {None, Some(1)}
MultiSri == <<[algorithm |-> "sha512", digest |-> Digest("sha512", <<0>>)],
              [algorithm |-> "sha256", digest |-> Digest("sha256", <<0>>)]>>
SriChoices == {None, Some(MultiSri)}

FreeWriter ==
  [st |-> "free", async |-> FALSE, key |-> None, written |-> 0,
   opts |-> [sri |-> None, size |-> None], expected |-> None,
   cw |-> [data |-> <<>>, closed |-> FALSE],
   drv |-> "user", buf |-> <<>>, data |-> <<>>, res |-> None, ins |-> <<>>]

\* the inputs of write_entries
Paths == {"a", "b"}
EntryData == {<<>>, <<0>>, <<0, 254>>, <<254>>}

\* write_entries before the task is spawned: an empty pack buffer under a
\* fresh SHA-256 builder, an empty entry_hash
NewDest == [buf |-> <<>>, builder |-> BuilderNew("sha256")]

\* an SSRIStream that has not been built yet: no direction, nothing moved
NoAdapter == [dir |-> "none", stream |-> NewDest, last |-> None, sri |-> None]

\* no Writer or SyncWriter has been created yet
NoHandle == [open |-> FALSE, w |-> FreeWriter, calls |-> <<>>, last |-> None]

\* an empty offset table on which the fanout has not been built
NoTab == [table |-> <<>>, out |-> None]

Init ==
  /\ tab = NoTab
  /\ handle = NoHandle
  /\ adapter = NoAdapter
  /\ writers = [w \in WriterIds |-> FreeWriter]
  /\ index = [k \in Keys |-> None]
  /\ store = {}
  /\ pc = "loop"
  /\ consumed = 0
  /\ dest = NewDest
  /\ offset = 0
  /\ offsets = <<>>
  /\ entry_hash = [p \in Paths |-> None]
  /\ packed = <<>>
  /\ index_object = None
  /\ packfile_sri = None
  /\ output_packidx = None
  /\ fs = [dir |-> FALSE, idx |-> {}, pack |-> {}]
  /\ result = None


(* ---------------------------------------------------------------------- *)
(* Collaborators: the content writer (content::write::Writer) and the     *)
(* key index (index::insert, index::insert_async)                         *)
(* ---------------------------------------------------------------------- *)
\* the byte sink: amt bytes of buf are accepted and reported
ContentWrite(cw, buf, amt) == [cw EXCEPT !.data = @ \o SubSeq(buf, 1, amt)]

\* close()/close_async(): the final Integrity of the bytes accepted
ContentSri(cw) == IntegrityResult("sha256", cw.data)
ContentClose(cw) == [cw EXCEPT !.closed = TRUE]

\* the blob is persisted under a path derived from its Integrity
ContentPersist(st, cw) == st \cup {<<ContentSri(cw), cw.data>>}

\* insert(cache, key, opts): the record for key, and the SRI returned
IndexInsert(idx, key, opts) ==
  [idx EXCEPT ![key] = Some([sri |-> Unwrap(opts.sri), size |-> opts.size])]
IndexInsertResult(opts) == Unwrap(opts.sri)

(* ---------------------------------------------------------------------- *)
(* WriteOpts::open, open_hash, open_sync, open_hash_sync                  *)
(* ---------------------------------------------------------------------- *)
OptsChoices == [sri : SriChoices, size : SizeChoices]

OpenWriter(async, key, o) ==
  [FreeWriter EXCEPT !.st = "open", !.async = async, !.key = key,
                     !.written = 0, !.opts = o, !.expected = o.sri]

(* ---------------------------------------------------------------------- *)
(* impl AsyncWrite for Writer / impl Write for SyncWriter                 *)
(* ---------------------------------------------------------------------- *)
\* variant: the count requested, not the count reported, is added
PollWriteRequested(me, buf, amt) ==
  [me EXCEPT !.cw = ContentWrite(me.cw, buf, amt), !.written = @ + Len(buf)]

\* variant: the bytes are forwarded but never counted
PollWriteUncounted(me, buf, amt) ==
  [me EXCEPT !.cw = ContentWrite(me.cw, buf, amt)]

\* Writer::poll_write, the lower-level write reported amt bytes
PollWrite(me, buf, amt) ==
  [me EXCEPT !.cw = ContentWrite(me.cw, buf, amt), !.written = @ + amt]

\* variant of the sync write: the count requested is added
SyncWriteRequested(me, buf, amt) ==
  [me EXCEPT !.cw = ContentWrite(me.cw, buf, amt), !.written = @ + Len(buf)]

\* SyncWriter::write, the lower-level write reported amt bytes
SyncWrite(me, buf, amt) ==
  [me EXCEPT !.cw = ContentWrite(me.cw, buf, amt), !.written = @ + amt]

WriterWrite(me, buf, amt) ==
  IF me.async THEN PollWrite(me, buf, amt) ELSE SyncWrite(me, buf, amt)

(* ---------------------------------------------------------------------- *)
(* Writer::commit and SyncWriter::commit, up to the index insert          *)
(* ---------------------------------------------------------------------- *)

\* variant: the expected integrity is never compared
CommitChecksNoIntegrity(me, writer_sri) ==
  LET o == IF IsSome(me.opts.sri) THEN me.opts
           ELSE [me.opts EXCEPT !.sri = Some(writer_sri)]
      m2 == [me EXCEPT !.opts = o]
  IN IF IsSome(o.size) /\ Unwrap(o.size) # me.written
     THEN [m2 EXCEPT !.st = "done",
                     !.res = Some(<<"SizeError", Unwrap(o.size), me.written>>)]
     ELSE IF IsSome(me.key)
          THEN [m2 EXCEPT !.st = "inserting"]
          ELSE [m2 EXCEPT !.st = "done", !.res = Some(<<"Ok", writer_sri>>)]

\* variant: the expected size is never compared
CommitChecksNoSize(me, writer_sri) ==
  IF IsSome(me.opts.sri) /\ Matches(Unwrap(me.opts.sri), writer_sri) = None
  THEN [me EXCEPT !.st = "done",
                  !.res = Some(<<"IntegrityCheckError", Unwrap(me.opts.sri), writer_sri>>)]
  ELSE
    LET o == IF IsSome(me.opts.sri) THEN me.opts
             ELSE [me.opts EXCEPT !.sri = Some(writer_sri)]
        m2 == [me EXCEPT !.opts = o]
    IN IF IsSome(me.key)
       THEN [m2 EXCEPT !.st = "inserting"]
       ELSE [m2 EXCEPT !.st = "done", !.res = Some(<<"Ok", writer_sri>>)]

\* variant: the key is ignored and the computed SRI returned at once
CommitChecksNoInsert(me, writer_sri) ==
  IF IsSome(me.opts.sri) /\ Matches(Unwrap(me.opts.sri), writer_sri) = None
  THEN [me EXCEPT !.st = "done",
                  !.res = Some(<<"IntegrityCheckError", Unwrap(me.opts.sri), writer_sri>>)]
  ELSE
    LET o == IF IsSome(me.opts.sri) THEN me.opts
             ELSE [me.opts EXCEPT !.sri = Some(writer_sri)]
        m2 == [me EXCEPT !.opts = o]
    IN IF IsSome(o.size) /\ Unwrap(o.size) # me.written
       THEN [m2 EXCEPT !.st = "done",
                       !.res = Some(<<"SizeError", Unwrap(o.size), me.written>>)]
       ELSE [m2 EXCEPT !.st = "done", !.res = Some(<<"Ok", writer_sri>>)]

\* variant: the size is compared before the integrity
CommitChecksSizeFirst(me, writer_sri) ==
  IF IsSome(me.opts.size) /\ Unwrap(me.opts.size) # me.written
  THEN [me EXCEPT !.st = "done",
                  !.res = Some(<<"SizeError", Unwrap(me.opts.size), me.written>>)]
  ELSE IF IsSome(me.opts.sri) /\ Matches(Unwrap(me.opts.sri), writer_sri) = None
  THEN [me EXCEPT !.st = "done",
                  !.res = Some(<<"IntegrityCheckError", Unwrap(me.opts.sri), writer_sri>>)]
  ELSE
    LET o == IF IsSome(me.opts.sri) THEN me.opts
             ELSE [me.opts EXCEPT !.sri = Some(writer_sri)]
        m2 == [me EXCEPT !.opts = o]
    IN IF IsSome(me.key)
       THEN [m2 EXCEPT !.st = "inserting"]
       ELSE [m2 EXCEPT !.st = "done", !.res = Some(<<"Ok", writer_sri>>)]

\* the checks of commit once the content writer returned writer_sri
CommitChecks(me, writer_sri) ==
  IF IsSome(me.opts.sri) /\ Matches(Unwrap(me.opts.sri), writer_sri) = None
  THEN [me EXCEPT !.st = "done",
                  !.res = Some(<<"IntegrityCheckError", Unwrap(me.opts.sri), writer_sri>>)]
  ELSE
    LET o == IF IsSome(me.opts.sri) THEN me.opts
             ELSE [me.opts EXCEPT !.sri = Some(writer_sri)]
        m2 == [me EXCEPT !.opts = o]
    IN IF IsSome(o.size) /\ Unwrap(o.size) # me.written
       THEN [m2 EXCEPT !.st = "done",
                       !.res = Some(<<"SizeError", Unwrap(o.size), me.written>>)]
       ELSE IF IsSome(me.key)
            THEN [m2 EXCEPT !.st = "inserting"]
            ELSE [m2 EXCEPT !.st = "done", !.res = Some(<<"Ok", writer_sri>>)]

\* Writer::commit: self.writer.into_inner().await.close_async().await?
WriterCommit(me, closeOk) ==
  IF ~closeOk THEN [me EXCEPT !.st = "done", !.res = Some(<<"CloseError">>)]
  ELSE CommitChecks([me EXCEPT !.cw = ContentClose(me.cw)], ContentSri(me.cw))

\* SyncWriter::commit: self.writer.close()?
SyncWriterCommit(me, closeOk) ==
  IF ~closeOk THEN [me EXCEPT !.st = "done", !.res = Some(<<"CloseError">>)]
  ELSE CommitChecks([me EXCEPT !.cw = ContentClose(me.cw)], ContentSri(me.cw))

CommitOf(me, closeOk) ==
  IF me.async THEN WriterCommit(me, closeOk) ELSE SyncWriterCommit(me, closeOk)

\* the tail of commit: index::insert(_async)(&cache, &key, self.opts)
CommitInsertResult(me, insertOk) ==
  IF insertOk
  THEN [me EXCEPT !.st = "done",
                  !.ins = Append(@, [key |-> Unwrap(me.key), opts |-> me.opts,
                                     ret |-> IndexInsertResult(me.opts)]),
                  !.res = Some(<<"Ok", IndexInsertResult(me.opts)>>)]
  ELSE [me EXCEPT !.st = "done", !.res = Some(<<"InsertError">>)]

(* ---------------------------------------------------------------------- *)
(* Actions of the writers                                                 *)
(* ---------------------------------------------------------------------- *)
Open(w) ==
  \E k \in Keys, o \in OptsChoices :
    /\ writers[w].st = "free"
    /\ writers' = [writers EXCEPT ![w] = OpenWriter(TRUE, Some(k), o)]
    /\ UNCHANGED <<index, store>>
    /\ UNCHANGED <<pvars, adapter, handle, tab>>

OpenHash(w) ==
  \E o \in OptsChoices :
    /\ writers[w].st = "free"
    /\ writers' = [writers EXCEPT ![w] = OpenWriter(TRUE, None, o)]
    /\ UNCHANGED <<index, store>>
    /\ UNCHANGED <<pvars, adapter, handle, tab>>

OpenSync(w) ==
  \E k \in Keys, o \in OptsChoices :
    /\ writers[w].st = "free"
    /\ writers' = [writers EXCEPT ![w] = OpenWriter(FALSE, Some(k), o)]
    /\ UNCHANGED <<index, store>>
    /\ UNCHANGED <<pvars, adapter, handle, tab>>

OpenHashSync(w) ==
  \E o \in OptsChoices :
    /\ writers[w].st = "free"
    /\ writers' = [writers EXCEPT ![w] = OpenWriter(FALSE, None, o)]
    /\ UNCHANGED <<index, store>>
    /\ UNCHANGED <<pvars, adapter, handle, tab>>

\* one write call of the caller on an open writer; the content writer
\* accepts and reports amt of the bytes offered
Write(w) ==
  \E buf \in WriteBufs, amt \in 1..MaxDataLen :
    /\ writers[w].st = "open"
    /\ writers[w].drv = "user"
    /\ amt <= Len(buf)
    /\ Len(writers[w].cw.data) + amt <= MaxDataLen
    /\ writers' = [writers EXCEPT ![w] = WriterWrite(@, buf, amt)]
    /\ UNCHANGED <<index, store>>
    /\ UNCHANGED <<pvars, adapter, handle, tab>>

\* the writer is dropped without commit
Drop(w) ==
  /\ writers[w].st = "open"
  /\ writers[w].drv = "user"
  /\ writers' = [writers EXCEPT ![w].st = "dropped"]
  /\ UNCHANGED <<index, store>>
  /\ UNCHANGED <<pvars, adapter, handle, tab>>

CommitStep(w, me) ==
  \E closeOk \in BOOLEAN :
    LET after == CommitOf(me, closeOk) IN
    /\ writers' = [writers EXCEPT ![w] = after]
    /\ store' = IF after.cw.closed THEN ContentPersist(store, me.cw) ELSE store
    /\ UNCHANGED index
    /\ UNCHANGED <<pvars, adapter, handle, tab>>

\* commit() called by the caller
Commit(w) ==
  /\ writers[w].st = "open"
  /\ writers[w].drv = "user"
  /\ CommitStep(w, writers[w])

\* the index insert of a commit completes and commit returns
CommitInsert(w) ==
  \E insertOk \in BOOLEAN :
    /\ writers[w].st = "inserting"
    /\ writers' = [writers EXCEPT ![w] = CommitInsertResult(@, insertOk)]
    /\ index' = IF insertOk
                THEN IndexInsert(index, Unwrap(writers[w].key), writers[w].opts)
                ELSE index
    /\ UNCHANGED store
    /\ UNCHANGED <<pvars, adapter, handle, tab>>

(* ---------------------------------------------------------------------- *)
(* write, write_hash, write_sync, write_hash_sync                         *)
(* ---------------------------------------------------------------------- *)
ConvWriter(async, key, data, fn) ==
  [OpenWriter(async, key, [sri |-> None, size |-> Some(Len(data))])
     EXCEPT !.drv = fn, !.buf = data, !.data = data]

CallWrite(w) ==
  \E k \in Keys, data \in Blobs :
    /\ writers[w].st = "free"
    /\ writers' = [writers EXCEPT ![w] = ConvWriter(TRUE, Some(k), data, "write")]
    /\ UNCHANGED <<index, store>>
    /\ UNCHANGED <<pvars, adapter, handle, tab>>

CallWriteHash(w) ==
  \E data \in Blobs :
    /\ writers[w].st = "free"
    /\ writers' = [writers EXCEPT ![w] = ConvWriter(TRUE, None, data, "write_hash")]
    /\ UNCHANGED <<index, store>>
    /\ UNCHANGED <<pvars, adapter, handle, tab>>

CallWriteSync(w) ==
  \E k \in Keys, data \in Blobs :
    /\ writers[w].st = "free"
    /\ writers' = [writers EXCEPT ![w] = ConvWriter(FALSE, Some(k), data, "write_sync")]
    /\ UNCHANGED <<index, store>>
    /\ UNCHANGED <<pvars, adapter, handle, tab>>

CallWriteHashSync(w) ==
  \E data \in Blobs :
    /\ writers[w].st = "free"
    /\ writers' = [writers EXCEPT ![w] = ConvWriter(FALSE, None, data, "write_hash_sync")]
    /\ UNCHANGED <<index, store>>
    /\ UNCHANGED <<pvars, adapter, handle, tab>>

\* one round of write_all: the writer reports amt bytes (Ok(0) and Err end
\* the function with an error and the writer is dropped)
WriteAllStep(me, amt) ==
  IF amt = 0 THEN [me EXCEPT !.st = "done", !.res = Some(<<"WriteError">>)]
  ELSE [WriterWrite(me, me.buf, amt) EXCEPT !.buf = SubSeq(me.buf, amt + 1, Len(me.buf))]

WriteAll(w) ==
  \E amt \in 0..MaxDataLen :
    /\ writers[w].st = "open"
    /\ writers[w].drv # "user"
    /\ writers[w].buf # <<>>
    /\ amt <= Len(writers[w].buf)
    /\ writers' = [writers EXCEPT ![w] = WriteAllStep(@, amt)]
    /\ UNCHANGED <<index, store>>
    /\ UNCHANGED <<pvars, adapter, handle, tab>>

\* write_sync and write_hash_sync: writer.written = data.len()
SetWritten(me) ==
  IF me.drv \in {"write_sync", "write_hash_sync"}
  THEN [me EXCEPT !.written = Len(me.data)] ELSE me

\* write_all returned Ok: the function commits
ConvCommit(w) ==
  /\ writers[w].st = "open"
  /\ writers[w].drv # "user"
  /\ writers[w].buf = <<>>
  /\ CommitStep(w, SetWritten(writers[w]))

Next ==
  \E w \in WriterIds :
    \/ Open(w)
    \/ OpenHash(w)
    \/ OpenSync(w)
    \/ OpenHashSync(w)
    \/ Write(w)
    \/ Drop(w)
    \/ Commit(w)
    \/ CommitInsert(w)
    \/ CallWrite(w)
    \/ CallWriteHash(w)
    \/ CallWriteSync(w)
    \/ CallWriteHashSync(w)
    \/ WriteAll(w)
    \/ ConvCommit(w)

Spec == Init /\ [][Next]_vars


(* ---------------------------------------------------------------------- *)
(* Properties of the writers                                              *)
(* ---------------------------------------------------------------------- *)
Tag(me) == Unwrap(me.res)[1]

\* commit was called on the writer and has returned
Committed(me) == me.st = "done" /\ Tag(me) # "WriteError"

\* what a reader finds in the content store under an SRI
ReadBlob(st, sri) == {b[2] : b \in {x \in st : x[1] = sri}}

\* C1 as stated: for a writer opened with size n and no expected
\* integrity, after writes whose reported counts sum to m, commit fails with
\* SizeError(n, m) when m # n and is not rejected for size when m = n.
C1_SizeCheckAsStated ==
  \A w \in WriterIds :
    LET me == writers[w] IN
    (Committed(me) /\ me.expected = None /\ IsSome(me.opts.size)) =>
      LET n == Unwrap(me.opts.size)
          m == Len(me.cw.data)
      IN /\ (m # n => Unwrap(me.res) = <<"SizeError", n, m>>)
         /\ (m = n => Tag(me) # "SizeError")

\* C1 amended: the same, for a commit in which the content writer closed
\* successfully (a close failure is returned before the size is compared).
C1_SizeCheck ==
  \A w \in WriterIds :
    LET me == writers[w] IN
    (Committed(me) /\ me.expected = None /\ IsSome(me.opts.size) /\ me.cw.closed) =>
      LET n == Unwrap(me.opts.size)
          m == Len(me.cw.data)
      IN /\ (m # n => Unwrap(me.res) = <<"SizeError", n, m>>)
         /\ (m = n => Tag(me) # "SizeError")

C1_Witness ==
  \E w1, w2 \in WriterIds :
    /\ writers[w1].drv = "user" /\ Committed(writers[w1])
    /\ writers[w1].expected = None /\ writers[w1].cw.closed
    /\ writers[w1].opts.size = Some(1) /\ writers[w1].cw.data = <<>>
    /\ Unwrap(writers[w1].res) = <<"SizeError", 1, 0>>
    /\ writers[w2].drv = "user" /\ Committed(writers[w2])
    /\ writers[w2].expected = None /\ writers[w2].cw.closed
    /\ writers[w2].opts.size = Some(1) /\ Len(writers[w2].cw.data) = 1
    /\ Tag(writers[w2]) = "Ok"

\* the size expectation of a writer is absent or satisfied
SizeSatisfied(me) == me.opts.size = None \/ Unwrap(me.opts.size) = me.written

\* C2 as stated: for a writer opened with an expected SRI (size absent or
\* satisfied), commit succeeds iff the expected SRI matches the SRI computed
\* over the bytes written, and otherwise fails with IntegrityCheckError
\* carrying the expected and the computed SRI.
C2_IntegrityCheckAsStated ==
  \A w \in WriterIds :
    LET me == writers[w] IN
    (Committed(me) /\ IsSome(me.expected) /\ SizeSatisfied(me)) =>
      LET computed == ContentSri(me.cw)
          expect == Unwrap(me.expected)
      IN /\ (Tag(me) = "Ok" <=> Matches(expect, computed) # None)
         /\ (Tag(me) # "Ok" =>
               Unwrap(me.res) = <<"IntegrityCheckError", expect, computed>>)

\* C2 amended: once the content writer has closed successfully, commit
\* fails with IntegrityCheckError(expected, computed) iff the expected SRI
\* does not match the computed one; when it matches, commit succeeds unless
\* the index insert of a key-bound writer fails.
C2_IntegrityCheck ==
  \A w \in WriterIds :
    LET me == writers[w] IN
    (Committed(me) /\ IsSome(me.expected) /\ SizeSatisfied(me) /\ me.cw.closed) =>
      LET computed == ContentSri(me.cw)
          expect == Unwrap(me.expected)
      IN /\ (Matches(expect, computed) = None <=>
               Unwrap(me.res) = <<"IntegrityCheckError", expect, computed>>)
         /\ (Matches(expect, computed) # None =>
               \/ Tag(me) = "Ok"
               \/ (Tag(me) = "InsertError" /\ IsSome(me.key)))

C2_Witness ==
  \E w1, w2 \in WriterIds :
    /\ Committed(writers[w1]) /\ writers[w1].expected = Some(MultiSri)
    /\ writers[w1].cw.closed /\ writers[w1].cw.data = <<254>>
    /\ Tag(writers[w1]) = "IntegrityCheckError"
    /\ Committed(writers[w2]) /\ writers[w2].expected = Some(MultiSri)
    /\ writers[w2].cw.closed /\ writers[w2].cw.data = <<0>>
    /\ Tag(writers[w2]) = "Ok"

\* both checks of commit pass on this writer
ChecksPass(me) ==
  /\ me.cw.closed
  /\ me.expected = None \/ Matches(Unwrap(me.expected), ContentSri(me.cw)) # None
  /\ SizeSatisfied(me)

\* C3: the key index changes only in the step in which a commit of a
\* key-bound writer whose integrity and size checks passed returns success;
\* drops, failing commits and keyless commits leave it unchanged.
C3_IndexOnlyByCommit ==
  [][index' # index =>
       \E w \in WriterIds :
         /\ writers[w].st = "inserting"
         /\ IsSome(writers[w].key)
         /\ ChecksPass(writers[w])
         /\ writers'[w].st = "done"
         /\ Tag(writers'[w]) = "Ok"
         /\ index' = IndexInsert(index, Unwrap(writers[w].key), writers[w].opts)]_vars

C3_Witness ==
  \E w1, w2 \in WriterIds :
    /\ writers[w1].st = "dropped" /\ IsSome(writers[w1].key)
    /\ writers[w1].cw.data # <<>>
    /\ Committed(writers[w2]) /\ IsSome(writers[w2].key)
    /\ Tag(writers[w2]) \in {"SizeError", "IntegrityCheckError"}
    /\ \A k \in Keys : index[k] = None

\* C4: when commit of a key-bound writer has returned success, the content
\* writer was closed and its blob persisted, exactly one index insert for
\* (key, opts) completed, and the value returned is that insert's result.
C4_CommitAfterInsert ==
  \A w \in WriterIds :
    LET me == writers[w] IN
    /\ Len(me.ins) <= 1
    /\ (Committed(me) /\ Tag(me) = "Ok" /\ IsSome(me.key)) =>
         /\ me.cw.closed
         /\ <<ContentSri(me.cw), me.cw.data>> \in store
         /\ Len(me.ins) = 1
         /\ me.ins[1].key = Unwrap(me.key)
         /\ me.ins[1].opts = me.opts
         /\ Unwrap(me.res) = <<"Ok", me.ins[1].ret>>

C4_Witness ==
  \E w \in WriterIds :
    /\ Committed(writers[w]) /\ Tag(writers[w]) = "Ok"
    /\ IsSome(writers[w].key) /\ Len(writers[w].ins) = 1

\* C5: in the step in which write(root, K, B) or write_sync(root, K, B)
\* returns, the result is never SizeError, and on success the SRI returned
\* and the index entry of K are the SRI of exactly the bytes of B and the
\* content store holds B (and nothing else) under that SRI.
C5_RoundTrip ==
  [][\A w \in WriterIds :
       (/\ writers[w].st # "done"
        /\ writers'[w].st = "done"
        /\ writers'[w].drv \in {"write", "write_sync"}) =>
          LET me == writers'[w]
              B == me.data
              K == Unwrap(me.key)
              sri == IntegrityResult("sha256", B)
          IN /\ Tag(me) # "SizeError"
             /\ Tag(me) = "Ok" =>
                  /\ Unwrap(me.res) = <<"Ok", sri>>
                  /\ IsSome(index'[K])
                  /\ Unwrap(index'[K]).sri = sri
                  /\ ReadBlob(store', Unwrap(index'[K]).sri) = {B}]_vars

C5_Witness ==
  \E w1, w2 \in WriterIds :
    /\ writers[w1].drv = "write" /\ writers[w1].st = "done"
    /\ Tag(writers[w1]) = "Ok" /\ writers[w1].data = <<254>>
    /\ writers[w2].drv = "write_sync" /\ writers[w2].st = "done"
    /\ Tag(writers[w2]) = "Ok" /\ writers[w2].data = <<0>>


(* ---------------------------------------------------------------------- *)
(* write_entries: byte encodings                                          *)
(* ---------------------------------------------------------------------- *)
U64Len == 8
U32Len == 4
FanoutSize == 256
DefaultMode == 420

\* usize::to_be_bytes / u64::to_be_bytes: k bytes, most significant first
RECURSIVE ToBeBytes(_, _)
ToBeBytes(n, k) ==
  IF k = 0 THEN <<>> ELSE ToBeBytes(n \div 256, k - 1) \o <<n % 256>>

\* the value of the first k bytes of a big-endian byte string
RECURSIVE BeValue(_, _)
BeValue(bytes, k) ==
  IF k = 0 THEN 0 ELSE 256 * BeValue(bytes, k - 1) + bytes[k]

\* the value of a big-endian byte string
FromBeBytes(bytes) == BeValue(bytes, Len(bytes))

\* k bytes, least significant first
RECURSIVE ToLeBytes(_, _)
ToLeBytes(n, k) ==
  IF k = 0 THEN <<>> ELSE <<n % 256>> \o ToLeBytes(n \div 256, k - 1)

\* snap::write::FrameEncoder: an encoder that is given no bytes emits
\* nothing; otherwise it emits the stream identifier and one chunk, which
\* for an input this short is the uncompressed chunk (type, 3-byte
\* little-endian length, 4-byte checksum, the bytes)
StreamIdentifier == <<255, 6, 0, 0, 115, 78, 97, 80, 112, 89>>
Checksum(data) == Digest("sha256", data) \o <<Len(data) % 256, 0>>
Frame(data) ==
  IF data = <<>> THEN <<>>
  ELSE StreamIdentifier \o <<1>> \o ToLeBytes(Len(data) + 4, 3)
         \o Checksum(data) \o data

\* FrameEncoder::write: every byte offered is taken into the encoder's
\* block buffer and the count of bytes taken is returned
EncoderWrite(data) == Len(data)

(* ---------------------------------------------------------------------- *)
(* SSRIStream                                                             *)
(* ---------------------------------------------------------------------- *)
\* variant: the bytes are forwarded but the builder is not fed
SsriWriteNoDigest(stream, bytes) == [stream EXCEPT !.buf = @ \o bytes]

\* impl Write for SSRIStream over the Cursor<Vec<u8>>: the cursor takes all
\* of buf, and the bytes taken are fed to the builder
SsriWrite(stream, bytes) ==
  [buf |-> stream.buf \o bytes, builder |-> BuilderInput(stream.builder, bytes)]

\* FrameEncoder::into_inner: the frames are flushed into the stream
EncoderIntoInner(stream, data) == SsriWrite(stream, Frame(data))

\* impl AsyncRead for SSRIStream, read to the end, then into_inner().0
EntrySri(data) == BuilderResult(BuilderInput(BuilderNew("sha256"), data))

(* ---------------------------------------------------------------------- *)
(* offsets: BTreeMap<Vec<u8>, usize>, kept as the sequence of its         *)
(* (key, value) pairs in key order                                        *)
(* ---------------------------------------------------------------------- *)
\* Ord for Vec<u8>
RECURSIVE LexLess(_, _)
LexLess(a, b) ==
  IF a = <<>> THEN b # <<>>
  ELSE IF b = <<>> THEN FALSE
  ELSE IF a[1] # b[1] THEN a[1] < b[1]
  ELSE LexLess(Tail(a), Tail(b))

\* variant: a list in arrival order
BTreeInsertUnordered(m, k, v) == Append(m, <<k, v>>)

\* BTreeMap::insert
RECURSIVE BTreeInsert(_, _, _)
BTreeInsert(m, k, v) ==
  IF m = <<>> THEN <<<<k, v>>>>
  ELSE IF m[1][1] = k THEN <<<<k, v>>>> \o Tail(m)
  ELSE IF LexLess(k, m[1][1]) THEN <<<<k, v>>>> \o m
  ELSE <<m[1]>> \o BTreeInsert(Tail(m), k, v)

(* ---------------------------------------------------------------------- *)
(* entry_hash and its serialization                                       *)
(* ---------------------------------------------------------------------- *)
PresentPaths(eh) == {p \in Paths : IsSome(eh[p])}

\* the orders in which a HashMap may be iterated
RECURSIVE Perms(_)
Perms(S) ==
  IF S = {} THEN {<<>>}
  ELSE UNION {{<<x>> \o q : q \in Perms(S \ {x})} : x \in S}

PathBytes(p) == IF p = "a" THEN <<97>> ELSE <<98>>

\* bincode of one (String, (Integrity, usize, u32)) pair
SerializeEntry(p, v) ==
  ToLeBytes(Len(PathBytes(p)), U64Len) \o PathBytes(p)
    \o ToLeBytes(Len(v[1]), U64Len)
    \o ToLeBytes(IF v[1][1].algorithm = "sha256" THEN 2 ELSE 0, U32Len)
    \o ToLeBytes(Len(v[1][1].digest), U64Len) \o v[1][1].digest
    \o ToLeBytes(v[2], U64Len)
    \o ToLeBytes(v[3], U32Len)

RECURSIVE SerializeEntries(_, _)
SerializeEntries(eh, order) ==
  IF order = <<>> THEN <<>>
  ELSE SerializeEntry(Head(order), Unwrap(eh[Head(order)]))
         \o SerializeEntries(eh, Tail(order))

\* bincode::serialize(&entry_hash), the map iterated in the given order
Serialize(eh, order) == ToLeBytes(Len(order), U64Len) \o SerializeEntries(eh, order)

(* ---------------------------------------------------------------------- *)
(* The fanout construction                                                *)
(* ---------------------------------------------------------------------- *)
FanoutInit ==
  [fanout |-> [i \in 0..(FanoutSize - 1) |-> 0],
   fanout_idx |-> 0, object_idx |-> 0, oob |-> FALSE]

\* offsets[object_idx].0[0]
FirstByte(vec, object_idx) == vec[object_idx + 1][1][1]

\* while offsets[object_idx].0[0] as usize != fanout_idx { .. }: every
\* round stores object_idx in the current bucket and moves to the next one,
\* until the bucket of the object's first byte, or bucket 256 (the break),
\* is reached; the rounds are taken together
FanoutSkip(vec, s) ==
  IF s.oob THEN s
  ELSE IF s.object_idx >= Len(vec) THEN [s EXCEPT !.oob = TRUE]
  ELSE LET b == FirstByte(vec, s.object_idx)
           stop == IF b >= s.fanout_idx THEN b ELSE FanoutSize
       IN [s EXCEPT !.fanout = [i \in 0..(FanoutSize - 1) |->
                                  IF i >= s.fanout_idx /\ i < stop
                                  THEN s.object_idx ELSE @[i]],
                    !.fanout_idx = stop]

\* variant: the inner loop goes on without looking at offsets.len()
RECURSIVE FanoutCountNoBreak(_, _)
FanoutCountNoBreak(vec, s) ==
  IF s.oob THEN s
  ELSE IF s.object_idx >= Len(vec) THEN [s EXCEPT !.oob = TRUE]
  ELSE IF FirstByte(vec, s.object_idx) = s.fanout_idx
       THEN FanoutCountNoBreak(vec, [s EXCEPT !.object_idx = @ + 1])
       ELSE s

\* while offsets[object_idx].0[0] as usize == fanout_idx { .. }
RECURSIVE FanoutCount(_, _)
FanoutCount(vec, s) ==
  IF s.oob THEN s
  ELSE IF s.object_idx >= Len(vec) THEN [s EXCEPT !.oob = TRUE]
  ELSE IF FirstByte(vec, s.object_idx) = s.fanout_idx
       THEN LET s1 == [s EXCEPT !.object_idx = @ + 1]
            IN IF s1.object_idx >= Len(vec) THEN s1 ELSE FanoutCount(vec, s1)
       ELSE s

\* fanout[fanout_idx] = object_idx; fanout_idx += 1
FanoutSet(s) ==
  IF s.oob THEN s
  ELSE IF s.fanout_idx >= FanoutSize THEN [s EXCEPT !.oob = TRUE]
  ELSE [s EXCEPT !.fanout[s.fanout_idx] = s.object_idx, !.fanout_idx = @ + 1]

\* while fanout_idx < 256 && object_idx < offsets.len() { .. }
RECURSIVE FanoutWalk(_, _)
FanoutWalk(vec, s) ==
  IF ~s.oob /\ s.fanout_idx < FanoutSize /\ s.object_idx < Len(vec)
  THEN FanoutWalk(vec, FanoutSet(FanoutCount(vec, FanoutSkip(vec, s))))
  ELSE s

\* variant: the trailing buckets are left as initialised
FanoutFillNone(s) == s

\* while fanout_idx < 256 { fanout[fanout_idx] = object_idx; fanout_idx += 1 },
\* the rounds taken together
FanoutFill(s) ==
  IF s.oob THEN s
  ELSE [s EXCEPT !.fanout = [i \in 0..(FanoutSize - 1) |->
                               IF i >= s.fanout_idx THEN s.object_idx ELSE @[i]],
                 !.fanout_idx = FanoutSize]

BuildFanout(vec) == FanoutFill(FanoutWalk(vec, FanoutInit))

\* the .idx buffer: the fanout, each count as the 8 bytes that to_be() and
\* the transmute leave in memory (most significant first), then one row per
\* offsets pair, the digest and the offset as 8 big-endian bytes
PackIdx(fanout, vec) ==
  [fanout |-> [i \in 0..(FanoutSize - 1) |-> ToBeBytes(fanout[i], U64Len)],
   rows |-> [i \in 1..Len(vec) |-> <<vec[i][1], ToBeBytes(vec[i][2], U64Len)>>]]

(* ---------------------------------------------------------------------- *)
(* persist_cursor                                                         *)
(* ---------------------------------------------------------------------- *)
PersistOutcomes == {"ok", "open_failed", "map_failed", "flush_failed"}

\* the files of one kind after persist_cursor(cursor, path): a failing open
\* leaves no file, a failing set_len or map leaves the file without the
\* buffer, and the copy into the map puts the buffer into the file
PersistCursor(files, name, buf, outcome) ==
  IF outcome = "open_failed" THEN files
  ELSE {f \in files : f.name # name}
         \cup {[name |-> name,
                content |-> IF outcome = "map_failed" THEN None ELSE Some(buf)]}

(* ---------------------------------------------------------------------- *)
(* Actions of write_entries                                               *)
(* ---------------------------------------------------------------------- *)
Failed == Some(<<"Err">>)

\* variant: an error item is passed over and the loop goes on
StreamErrorIgnored ==
  /\ pc = "loop"
  /\ consumed < MaxEntries
  /\ consumed' = consumed + 1
  /\ UNCHANGED <<pc, dest, offset, offsets, entry_hash, packed, index_object,
                 packfile_sri, output_packidx, fs, result>>
  /\ UNCHANGED <<wvars, adapter, handle, tab>>

\* entry_stream yields Some(Err(_)): entry.to_internal()? returns
StreamError ==
  /\ pc = "loop"
  /\ consumed < MaxEntries
  /\ pc' = "failed"
  /\ result' = Failed
  /\ consumed' = consumed + 1
  /\ UNCHANGED <<dest, offset, offsets, entry_hash, packed, index_object,
                 packfile_sri, output_packidx, fs>>
  /\ UNCHANGED <<wvars, adapter, handle, tab>>

\* variant: path() is looked at only after the size header was written
SkipEntryAfterHeader ==
  \E data \in EntryData :
    /\ pc = "loop"
    /\ consumed < MaxEntries
    /\ consumed' = consumed + 1
    /\ dest' = SsriWrite(dest, ToBeBytes(Len(data), U64Len))
    /\ offset' = offset + U64Len
    /\ UNCHANGED <<pc, offsets, entry_hash, packed, index_object,
                   packfile_sri, output_packidx, fs, result>>
    /\ UNCHANGED <<wvars, adapter, handle, tab>>

\* entry.path() is Err: continue
SkipEntry ==
  /\ pc = "loop"
  /\ consumed < MaxEntries
  /\ consumed' = consumed + 1
  /\ UNCHANGED <<pc, dest, offset, offsets, entry_hash, packed, index_object,
                 packfile_sri, output_packidx, fs, result>>
  /\ UNCHANGED <<wvars, adapter, handle, tab>>

\* entry.size() is Err: entry.size().to_internal()? returns
SizeError ==
  /\ pc = "loop"
  /\ consumed < MaxEntries
  /\ pc' = "failed"
  /\ result' = Failed
  /\ consumed' = consumed + 1
  /\ UNCHANGED <<dest, offset, offsets, entry_hash, packed, index_object,
                 packfile_sri, output_packidx, fs>>
  /\ UNCHANGED <<wvars, adapter, handle, tab>>

\* reading the entry fails after its size header was written
ReadError ==
  \E data \in EntryData :
    /\ pc = "loop"
    /\ consumed < MaxEntries
    /\ dest' = SsriWrite(dest, ToBeBytes(Len(data), U64Len))
    /\ offset' = offset + U64Len
    /\ pc' = "failed"
    /\ result' = Failed
    /\ consumed' = consumed + 1
    /\ UNCHANGED <<offsets, entry_hash, packed, index_object,
                   packfile_sri, output_packidx, fs>>
    /\ UNCHANGED <<wvars, adapter, handle, tab>>

\* one round of the entry loop on an entry whose path(), size() and bytes
\* are available; modeRes is the result of mode()
AppendEntry ==
  \E path \in Paths, data \in EntryData, modeRes \in {None, Some(493)} :
    LET size == Len(data)
        mode == IF IsSome(modeRes) THEN Unwrap(modeRes) ELSE DefaultMode
        header == ToBeBytes(size, U64Len)
        d1 == SsriWrite(dest, header)
        off1 == offset + Len(header)
        sri == EntrySri(data)
        off2 == off1 + EncoderWrite(data)
        d2 == EncoderIntoInner(d1, data)
        key == HexDecode(ToHex(sri)[2])
    IN /\ pc = "loop"
       /\ consumed < MaxEntries
       /\ dest' = d2
       /\ offset' = off2
       /\ offsets' = BTreeInsert(offsets, key, off2)
       /\ entry_hash' = [entry_hash EXCEPT ![path] = Some(<<sri, size, mode>>)]
       /\ packed' = Append(packed, [path |-> path, data |-> data, size |-> size,
                                    key |-> key, recorded |-> off2,
                                    start |-> Len(dest.buf), end |-> Len(d2.buf)])
       /\ consumed' = consumed + 1
       /\ UNCHANGED <<pc, index_object, packfile_sri, output_packidx, fs, result>>
       /\ UNCHANGED <<wvars, adapter, handle, tab>>

\* entry_stream yields None: the metadata index is serialized and appended,
\* the pack SRI taken, the fanout and the .idx buffer built
EndOfStream ==
  \E order \in Perms(PresentPaths(entry_hash)) :
    LET obj == Serialize(entry_hash, order)
        d1 == SsriWrite(dest, ToBeBytes(Len(obj), U64Len))
        d2 == EncoderIntoInner(d1, obj)
        fan == BuildFanout(offsets)
    IN /\ pc = "loop"
       /\ index_object' = Some(obj)
       /\ dest' = d2
       /\ packfile_sri' = Some(BuilderResult(d2.builder))
       /\ IF fan.oob
          THEN /\ pc' = "panicked"
               /\ UNCHANGED output_packidx
          ELSE /\ pc' = "mkdir"
               /\ output_packidx' = Some(PackIdx(fan.fanout, offsets))
       /\ UNCHANGED <<consumed, offset, offsets, entry_hash, packed, fs, result>>
       /\ UNCHANGED <<wvars, adapter, handle, tab>>

\* DirBuilder::new().recursive(true).create(<cache>/packed)
MkDir ==
  \E ok \in BOOLEAN :
    /\ pc = "mkdir"
    /\ IF ok
       THEN /\ fs' = [fs EXCEPT !.dir = TRUE]
            /\ pc' = "persist_idx"
            /\ UNCHANGED result
       ELSE /\ pc' = "failed"
            /\ result' = Failed
            /\ UNCHANGED fs
    /\ UNCHANGED <<consumed, dest, offset, offsets, entry_hash, packed,
                   index_object, packfile_sri, output_packidx>>
    /\ UNCHANGED <<wvars, adapter, handle, tab>>

\* persist_cursor(output_packidx, packed/<hex>.idx)
PersistIdx ==
  \E outcome \in PersistOutcomes :
    LET name == ToHex(Unwrap(packfile_sri))[2] IN
    /\ pc = "persist_idx"
    /\ fs' = [fs EXCEPT !.idx = PersistCursor(@, name, Unwrap(output_packidx), outcome)]
    /\ output_packidx' = None
    /\ IF outcome = "ok"
       THEN pc' = "persist_pack" /\ UNCHANGED result
       ELSE pc' = "failed" /\ result' = Failed
    /\ UNCHANGED <<consumed, dest, offset, offsets, entry_hash, packed,
                   index_object, packfile_sri>>
    /\ UNCHANGED <<wvars, adapter, handle, tab>>

\* persist_cursor(output_cursor, packed/<hex>.pack); Ok(packfile_sri)
PersistPack ==
  \E outcome \in PersistOutcomes :
    LET name == ToHex(Unwrap(packfile_sri))[2] IN
    /\ pc = "persist_pack"
    /\ fs' = [fs EXCEPT !.pack = PersistCursor(@, name, dest.buf, outcome)]
    /\ dest' = NewDest
    /\ IF outcome = "ok"
       THEN pc' = "done" /\ result' = Some(<<"Ok", Unwrap(packfile_sri)>>)
       ELSE pc' = "failed" /\ result' = Failed
    /\ UNCHANGED <<consumed, offset, offsets, entry_hash, packed,
                   index_object, packfile_sri, output_packidx>>
    /\ UNCHANGED <<wvars, adapter, handle, tab>>

PackNext ==
  \/ StreamError
  \/ SkipEntry
  \/ SizeError
  \/ ReadError
  \/ AppendEntry
  \/ EndOfStream
  \/ MkDir
  \/ PersistIdx
  \/ PersistPack

PackSpec == Init /\ [][PackNext]_vars


(* ---------------------------------------------------------------------- *)
(* Properties of write_entries                                            *)
(* ---------------------------------------------------------------------- *)
\* every .idx buffer built so far: the one in memory and those in files
IdxBuilt ==
  (IF IsSome(output_packidx) THEN {Unwrap(output_packidx)} ELSE {})
    \cup {Unwrap(f.content) : f \in {g \in fs.idx : IsSome(g.content)}}

\* the fanout entry b of an .idx, read back as a number
FanoutAt(idx, b) == FromBeBytes(idx.fanout[b])

\* the rows of an .idx whose digest starts with a byte <= b
RowsUpTo(idx, b) == {i \in 1..Len(idx.rows) : idx.rows[i][1][1] <= b}

\* C6: in every .idx built by write_entries, fanout[b] is the number of rows
\* whose first digest byte is <= b, for every b in 0..255; so the fanout
\* never decreases, fanout[255] is the number of rows, and a build without
\* rows has 256 zero entries.
C6_Fanout ==
  \A idx \in IdxBuilt :
    LET n == Len(idx.rows) IN
    /\ \A c \in 0..n :
         LET written == ToBeBytes(c, U64Len) IN
         \A b \in 0..(FanoutSize - 1) :
           Cardinality(RowsUpTo(idx, b)) = c => idx.fanout[b] = written
    /\ \A b \in 0..(FanoutSize - 2) : idx.fanout[b] = idx.fanout[b + 1]
                                        \/ FanoutAt(idx, b) < FanoutAt(idx, b + 1)
    /\ idx.fanout[FanoutSize - 1] = ToBeBytes(n, U64Len)
    /\ n = 0 => \A b \in 0..(FanoutSize - 1) : idx.fanout[b] = ToBeBytes(0, U64Len)

\* an .idx file with two rows in different buckets, neither the last bucket
\* of the table alone: the counts step at bucket 1 and at bucket 255
C6_Witness ==
  \E f \in fs.idx :
    /\ IsSome(f.content)
    /\ Len(Unwrap(f.content).rows) = 2
    /\ Unwrap(f.content).rows[1][1][1] = 1
    /\ Unwrap(f.content).rows[2][1][1] = 255
    /\ FanoutAt(Unwrap(f.content), 0) = 0
    /\ FanoutAt(Unwrap(f.content), 1) = 1
    /\ FanoutAt(Unwrap(f.content), 255) = 2

\* C7: after write_entries, fanout[255] of the generated .idx is the number
\* of entries written into the pack, entries of identical content included.
C7_FanoutCountsEntries ==
  \A idx \in IdxBuilt : FanoutAt(idx, FanoutSize - 1) = Len(packed)

\* C8: the offset recorded for each entry is the length of the pack buffer
\* right after the entry's framed payload was appended.
C8_OffsetIsBufferLength ==
  \A i \in 1..Len(packed) : packed[i].recorded = packed[i].end

\* the bytes of the pack: each entry's size header and framed body in the
\* order of arrival, then the size header and the frame of the metadata index
RECURSIVE PackBody(_)
PackBody(entries) ==
  IF entries = <<>> THEN <<>>
  ELSE ToBeBytes(Head(entries).size, U64Len) \o Frame(Head(entries).data)
         \o PackBody(Tail(entries))

PackBytes(entries, obj) ==
  PackBody(entries) \o ToBeBytes(Len(obj), U64Len) \o Frame(obj)

\* C9: the SRI returned by write_entries is the SHA-256 of exactly the bytes
\* persisted as the .pack file, which are every size header, every framed
\* body and the trailing framed metadata index, in order; the .pack and
\* the .idx file both carry the hex form of that SRI as their name.
C9_PackDigest ==
  (IsSome(result) /\ Unwrap(result)[1] = "Ok") =>
    LET sri == Unwrap(result)[2]
        name == ToHex(sri)[2]
    IN /\ fs.dir
       /\ \E f \in fs.pack :
            /\ f.name = name
            /\ IsSome(f.content)
            /\ Unwrap(f.content) = PackBytes(packed, Unwrap(index_object))
            /\ sri = IntegrityResult("sha256", Unwrap(f.content))
       /\ \A f \in fs.pack : f.name = name
       /\ \E g \in fs.idx : g.name = name /\ IsSome(g.content)
       /\ \A g \in fs.idx : g.name = name

\* a successful build of two entries, one of them with a non-empty body
C9_Witness ==
  /\ IsSome(result) /\ Unwrap(result)[1] = "Ok"
  /\ Len(packed) = 2
  /\ packed[1].data # <<>>
  /\ packed[1].data # packed[2].data

\* the offset last recorded for a digest
LastRecorded(key) ==
  LET ks == {k \in 1..Len(packed) : packed[k].key = key}
      last == CHOOSE k \in ks : \A j \in ks : j <= k
  IN packed[last].recorded

\* C10: the digests in the body of every generated .idx are in ascending
\* lexicographic order of their bytes, each paired with the offset recorded
\* for that digest, whatever the order in which the entries arrived.
C10_Sorted ==
  \A idx \in IdxBuilt :
    /\ \A i, j \in 1..Len(idx.rows) :
         i < j => LexLess(idx.rows[i][1], idx.rows[j][1])
    /\ {idx.rows[i][1] : i \in 1..Len(idx.rows)}
         = {packed[k].key : k \in 1..Len(packed)}
    /\ \A i \in 1..Len(idx.rows) :
         FromBeBytes(idx.rows[i][2]) = LastRecorded(idx.rows[i][1])

\* an .idx file of a build whose entries arrived in descending digest order
C10_Witness ==
  /\ Len(packed) = 2
  /\ LexLess(packed[2].key, packed[1].key)
  /\ \E f \in fs.idx : IsSome(f.content) /\ Len(Unwrap(f.content).rows) = 2

\* C11: the .pack file is persisted before the .idx file, so at every point
\* of a build, a failure between the two steps included, an .idx file
\* exists only if the .pack file of the same name exists.
C11_IdxOnlyWithPack ==
  \A g \in fs.idx : \E f \in fs.pack : f.name = g.name

\* C12: write_entries is deterministic: the serialized metadata index, the
\* pack stream and the pack SRI of a build are fixed by the sequence of
\* entries, so they are the ones any other build over the same entries
\* (one whose map is iterated in any other order) produces.
C12_Deterministic ==
  IsSome(index_object) =>
    \A order \in Perms(PresentPaths(entry_hash)) :
      /\ Unwrap(index_object) = Serialize(entry_hash, order)
      /\ IsSome(packfile_sri) =>
           Unwrap(packfile_sri)
             = IntegrityResult("sha256", PackBytes(packed, Serialize(entry_hash, order)))

\* C13: an entry whose path() fails is skipped with no effect: the step
\* leaves the pack buffer, the pack digest, the running offset, the offset
\* table and the metadata index as they were, and the loop goes on.
C13_SkipNoEffect ==
  [][SkipEntry =>
       /\ dest'.buf = dest.buf
       /\ dest'.builder = dest.builder
       /\ offset' = offset
       /\ offsets' = offsets
       /\ entry_hash' = entry_hash
       /\ pc' = "loop"
       /\ result' = None
       /\ fs' = fs]_vars

\* a build that skipped one item, packed another and succeeded
C13_Witness ==
  /\ IsSome(result) /\ Unwrap(result)[1] = "Ok"
  /\ consumed = 2
  /\ Len(packed) = 1
  /\ packed[1].data # <<>>

\* C14: when the entry stream yields an error item or an entry's size()
\* fails, the build is over: an error and no SRI is returned, neither the
\* packed directory nor a .pack or .idx file has been created, whatever
\* was packed before, and no step follows a failure (no entry is taken).
C14_AbortOnFatal ==
  [][/\ (StreamError \/ SizeError) =>
          /\ pc' = "failed"
          /\ result' = Failed
          /\ packfile_sri' = None
          /\ ~fs'.dir /\ fs'.idx = {} /\ fs'.pack = {}
     /\ pc = "failed" => UNCHANGED vars]_vars

\* a build that packed one entry and was then aborted by the next item,
\* before anything of that item was written
C14_Witness ==
  /\ pc = "failed"
  /\ result = Failed
  /\ consumed = 2
  /\ Len(packed) = 1
  /\ Len(dest.buf) = packed[1].end
  /\ index_object = None
  /\ ~fs.dir /\ fs.idx = {} /\ fs.pack = {}

\* the entries of the pack whose digest is lexicographically first
FirstByDigest ==
  {k \in 1..Len(packed) :
     \A j \in 1..Len(packed) : ~LexLess(packed[j].key, packed[k].key)}

\* C15: a .pack file of a build with at least one entry begins with the
\* 8-byte big-endian declared size of the entry whose digest is
\* lexicographically first, whatever the order of arrival.
C15_PackStartsWithFirstDigest ==
  \A f \in fs.pack :
    (IsSome(f.content) /\ Len(packed) >= 1) =>
      \E k \in FirstByDigest :
        SubSeq(Unwrap(f.content), 1, U64Len) = ToBeBytes(packed[k].size, U64Len)

(* ---------------------------------------------------------------------- *)
(* SSRIStream on its own: one adapter over an inner stream, in one of its *)
(* four directions.  stream.buf holds the bytes moved through the adapter *)
(* so far (delivered to the caller by a read, taken by the inner sink on  *)
(* a write).                                                              *)
(* ---------------------------------------------------------------------- *)
MaxStreamLen == 3

Directions == {"read", "write", "async_read", "async_write"}
IoErrors == {"BrokenPipe", "Interrupted"}

\* impl Read for SSRIStream: the bytes the inner reader put into buf are fed
SsriRead(stream, bytes) ==
  [buf |-> stream.buf \o bytes, builder |-> BuilderInput(stream.builder, bytes)]

\* impl AsyncRead for SSRIStream: builder.input(&buf[..amt])
SsriPollRead(stream, bytes) ==
  [buf |-> stream.buf \o bytes, builder |-> BuilderInput(stream.builder, bytes)]

\* impl AsyncWrite for SSRIStream: the amount the inner sink took is handed
\* back; the builder is not touched
SsriPollWrite(stream, bytes) == [stream EXCEPT !.buf = @ \o bytes]

\* what one call on the inner stream may do with a caller's buffer: fail,
\* or move a prefix of it
InnerOutcomes(buf) ==
  {<<"Err", e>> : e \in IoErrors} \cup {<<"Ok", n>> : n \in 0..Len(buf)}

\* the bytes of buf a call with outcome o moved
Taken(buf, o) == IF o[1] = "Ok" THEN SubSeq(buf, 1, o[2]) ELSE <<>>

\* the adapter after a call whose inner call ended with outcome o, where
\* moved is the stream after the direction's way of taking the bytes moved
AdapterCall(moved, o) ==
  IF o[1] = "Ok"
  THEN [adapter EXCEPT !.stream = moved, !.last = Some(o)]
  ELSE [adapter EXCEPT !.last = Some(o)]

NewAdapter ==
  \E dir \in Directions :
    /\ adapter.dir = "none"
    /\ adapter' = [NoAdapter EXCEPT !.dir = dir]
    /\ UNCHANGED <<wvars, pvars, handle, tab>>

AdapterRead ==
  \E buf \in WriteBufs : \E o \in InnerOutcomes(buf) :
    /\ adapter.dir = "read" /\ adapter.sri = None
    /\ Len(adapter.stream.buf) + Len(buf) <= MaxStreamLen
    /\ adapter' = AdapterCall(SsriRead(adapter.stream, Taken(buf, o)), o)
    /\ UNCHANGED <<wvars, pvars, handle, tab>>

AdapterWrite ==
  \E buf \in WriteBufs : \E o \in InnerOutcomes(buf) :
    /\ adapter.dir = "write" /\ adapter.sri = None
    /\ Len(adapter.stream.buf) + Len(buf) <= MaxStreamLen
    /\ adapter' = AdapterCall(SsriWrite(adapter.stream, Taken(buf, o)), o)
    /\ UNCHANGED <<wvars, pvars, handle, tab>>

AdapterPollRead ==
  \E buf \in WriteBufs : \E o \in InnerOutcomes(buf) \cup {<<"Pending">>} :
    /\ adapter.dir = "async_read" /\ adapter.sri = None
    /\ Len(adapter.stream.buf) + Len(buf) <= MaxStreamLen
    /\ adapter' = AdapterCall(SsriPollRead(adapter.stream, Taken(buf, o)), o)
    /\ UNCHANGED <<wvars, pvars, handle, tab>>

AdapterPollWrite ==
  \E buf \in WriteBufs : \E o \in InnerOutcomes(buf) \cup {<<"Pending">>} :
    /\ adapter.dir = "async_write" /\ adapter.sri = None
    /\ Len(adapter.stream.buf) + Len(buf) <= MaxStreamLen
    /\ adapter' = AdapterCall(SsriPollWrite(adapter.stream, Taken(buf, o)), o)
    /\ UNCHANGED <<wvars, pvars, handle, tab>>

\* SSRIStream::into_inner
AdapterIntoInner ==
  /\ adapter.dir # "none" /\ adapter.sri = None
  /\ adapter' = [adapter EXCEPT !.sri = Some(BuilderResult(adapter.stream.builder))]
  /\ UNCHANGED <<wvars, pvars, handle, tab>>

StreamNext ==
  \/ NewAdapter
  \/ AdapterRead
  \/ AdapterWrite
  \/ AdapterPollRead
  \/ AdapterPollWrite
  \/ AdapterIntoInner

StreamSpec == Init /\ [][StreamNext]_vars

\* C16: in each direction of SSRIStream, after any sequence of operations
\* the builder has been fed exactly the bytes moved through the adapter,
\* and into_inner yields the SRI of those bytes.
C16_BuilderFedMoved ==
  /\ adapter.stream.builder
       = BuilderInput(BuilderNew("sha256"), adapter.stream.buf)
  /\ IsSome(adapter.sri) =>
       Unwrap(adapter.sri) = IntegrityResult("sha256", adapter.stream.buf)

(* ---------------------------------------------------------------------- *)
(* Further properties of commit                                           *)
(* ---------------------------------------------------------------------- *)
\* C17: whenever the integrity check of commit has passed, opts.sri is the
\* SRI computed by the content writer before the index insert, so the opts
\* handed to the index insert carry the computed SRI, whether or not an
\* expected SRI was supplied.
C17_OptsCarryComputedSri ==
  \A w \in WriterIds :
    /\ writers[w].st = "inserting" =>
         writers[w].opts.sri = Some(ContentSri(writers[w].cw))
    /\ \A i \in 1..Len(writers[w].ins) :
         writers[w].ins[i].opts.sri = Some(ContentSri(writers[w].cw))

\* C18: in commit the content writer is closed first, then the integrity
\* check runs, then the size check: a failing close is what commit returns,
\* whatever the expectations; IntegrityMismatch and SizeMismatch are only
\* returned with the content writer closed; and when both the expected SRI
\* and the expected size disagree with the written data the result is
\* IntegrityMismatch.
C18_CheckOrder ==
  \A w \in WriterIds :
    LET me == writers[w]
        badSri == IsSome(me.expected)
                    /\ Matches(Unwrap(me.expected), ContentSri(me.cw)) = None
        badSize == IsSome(me.opts.size) /\ Unwrap(me.opts.size) # me.written
    IN Committed(me) =>
         /\ ~me.cw.closed <=> Tag(me) = "CloseError"
         /\ Tag(me) \in {"IntegrityCheckError", "SizeError"} => me.cw.closed
         /\ (me.cw.closed /\ badSri) => Tag(me) = "IntegrityCheckError"
         /\ (me.cw.closed /\ badSri /\ badSize) => Tag(me) # "SizeError"
         /\ Tag(me) = "SizeError" => (~badSri /\ badSize)

\* one commit that found both expectations violated and reported the
\* integrity mismatch, and one whose close failed with both violated
C18_Witness ==
  \E w1, w2 \in WriterIds :
    /\ Committed(writers[w1]) /\ writers[w1].cw.closed
    /\ writers[w1].expected = Some(MultiSri)
    /\ Matches(MultiSri, ContentSri(writers[w1].cw)) = None
    /\ writers[w1].opts.size = Some(1) /\ writers[w1].written # 1
    /\ Tag(writers[w1]) = "IntegrityCheckError"
    /\ Committed(writers[w2]) /\ ~writers[w2].cw.closed
    /\ writers[w2].expected = Some(MultiSri)
    /\ writers[w2].opts.size = Some(1) /\ writers[w2].written # 1
    /\ Tag(writers[w2]) = "CloseError"

(* ---------------------------------------------------------------------- *)
(* One Writer / SyncWriter under its io calls.  handle.calls is the       *)
(* history of the write calls: the length requested and what the          *)
(* lower-level writer answered.                                           *)
(* ---------------------------------------------------------------------- *)
MaxCalls == 2

\* what the lower-level writer may answer: Pending only to a poll
WriteOutcomes(me, buf) ==
  InnerOutcomes(buf) \cup (IF me.async THEN {<<"Pending">>} ELSE {})
FlushOutcomes(me) ==
  {<<"Ok">>} \cup {<<"Err", e>> : e \in IoErrors}
    \cup (IF me.async THEN {<<"Pending">>} ELSE {})

\* Writer::create / SyncWriter::create: written: 0
HandleOpen ==
  \E async \in BOOLEAN :
    /\ ~handle.open
    /\ handle' = [NoHandle EXCEPT !.open = TRUE,
                                  !.w = OpenWriter(async, None, [sri |-> None, size |-> None])]
    /\ UNCHANGED <<wvars, pvars, adapter, tab>>

\* Writer::poll_write / SyncWriter::write
HandleWrite ==
  \E buf \in WriteBufs : \E o \in WriteOutcomes(handle.w, buf) :
    /\ handle.open /\ ~handle.w.cw.closed
    /\ Len(handle.calls) < MaxCalls
    /\ handle' = [handle EXCEPT
                    !.w = IF o[1] = "Ok" THEN WriterWrite(@, buf, o[2]) ELSE @,
                    !.calls = Append(@, [req |-> Len(buf), res |-> o]),
                    !.last = Some(<<"write", o>>)]
    /\ UNCHANGED <<wvars, pvars, adapter, tab>>

\* Writer::poll_flush / SyncWriter::flush
HandleFlush ==
  \E o \in FlushOutcomes(handle.w) :
    /\ handle.open /\ ~handle.w.cw.closed
    /\ handle' = [handle EXCEPT !.last = Some(<<"flush", o>>)]
    /\ UNCHANGED <<wvars, pvars, adapter, tab>>

\* Writer::poll_close
HandleClose ==
  \E o \in FlushOutcomes(handle.w) :
    /\ handle.open /\ handle.w.async /\ ~handle.w.cw.closed
    /\ handle' = [handle EXCEPT
                    !.w.cw = IF o[1] = "Ok" THEN ContentClose(@) ELSE @,
                    !.last = Some(<<"close", o>>)]
    /\ UNCHANGED <<wvars, pvars, adapter, tab>>

HandleNext ==
  \/ HandleOpen
  \/ HandleWrite
  \/ HandleFlush
  \/ HandleClose

HandleSpec == Init /\ [][HandleNext]_vars

\* the sum of the counts reported by the successful calls of a history
RECURSIVE ReportedSum(_)
ReportedSum(calls) ==
  IF calls = <<>> THEN 0
  ELSE ReportedSum(SubSeq(calls, 1, Len(calls) - 1))
         + (IF calls[Len(calls)].res[1] = "Ok" THEN calls[Len(calls)].res[2] ELSE 0)

\* C19: bytes_written of a Writer or SyncWriter is 0 at open and at every
\* later point the sum of the counts reported by the successful lower-level
\* writes; a failed or pending write, a flush and a close leave it as it is.
C19_BytesWritten ==
  /\ handle.w.written = ReportedSum(handle.calls)
  /\ handle.calls = <<>> => handle.w.written = 0

\* a writer after a short write, a failed write and a flush
C19_Witness ==
  /\ handle.open
  /\ Len(handle.calls) = 2
  /\ handle.calls[1].res = <<"Ok", 1>> /\ handle.calls[1].req = 2
  /\ handle.calls[2].res[1] = "Err"
  /\ handle.last = Some(<<"flush", <<"Ok">>>>)
  /\ handle.w.written = 1

\* the digests keyed in the offset table, and those stored in entry_hash
OffsetDigests == {offsets[i][1] : i \in 1..Len(offsets)}
MetadataDigests ==
  {HexDecode(ToHex(Unwrap(entry_hash[p])[1])[2]) : p \in PresentPaths(entry_hash)}

\* C20: after the entry loop of write_entries the digests keyed in the
\* offset table are the digests stored in the path-keyed metadata index,
\* for any sequence of entries, entries sharing a path or content included.
C20_SameDigests ==
  IsSome(index_object) => OffsetDigests = MetadataDigests

(* ---------------------------------------------------------------------- *)
(* The fanout construction on its own: an offset table is filled through  *)
(* BTreeMap::insert, so that it holds distinct digests in ascending       *)
(* order, and the construction is run on it.                              *)
(* ---------------------------------------------------------------------- *)
MaxRows == 3

\* digests by leading byte: the first buckets, the last buckets
TableDigests == {<<b, c>> : b \in {0, 1, 254, 255}, c \in {0, 255}}

\* offsets.insert(digest, offset)
TableInsert ==
  \E d \in TableDigests :
    /\ tab.out = None
    /\ Len(tab.table) < MaxRows
    /\ tab' = [tab EXCEPT !.table = BTreeInsert(@, d, Len(tab.table) + 1)]
    /\ UNCHANGED <<wvars, pvars, adapter, handle>>

\* the two fanout loops, run on offsets.into_iter().collect::<Vec<_>>()
TableFanout ==
  /\ tab.out = None
  /\ tab' = [tab EXCEPT !.out = Some(BuildFanout(tab.table))]
  /\ UNCHANGED <<wvars, pvars, adapter, handle>>

FanoutNext ==
  \/ TableInsert
  \/ TableFanout

FanoutSpec == Init /\ [][FanoutNext]_vars

\* C21: on every offset table of distinct digests in ascending order the
\* fanout loops end, with every bucket set and every row passed, and
\* neither fanout[256] nor offsets[len] is ever indexed.
C21_NoOutOfBounds ==
  IsSome(tab.out) =>
    /\ ~Unwrap(tab.out).oob
    /\ Unwrap(tab.out).fanout_idx = FanoutSize
    /\ Unwrap(tab.out).object_idx = Len(tab.table)

\* the construction has run on a table whose rows are all in bucket 255,
\* and the last bucket counts them
C21_Witness ==
  /\ IsSome(tab.out)
  /\ Len(tab.table) = 2
  /\ \A i \in 1..Len(tab.table) : tab.table[i][1][1] = 255
  /\ Unwrap(tab.out).fanout[254] = 0
  /\ Unwrap(tab.out).fanout[255] = 2

====
